---- MODULE Spec2Model ----
(***************************************************************************)
(* A model of gpu_stress.py: the CLI dispatcher (main, run_all_gpus,       *)
(* run_on_gpu), the fragmentation loop of MemoryFragmenter.fragment and    *)
(* the timed compute loop of busy_loop_mem_power_fragment.                 *)
(*                                                                         *)
(* Sizes are bytes.  A tensor is modelled by its byte size                 *)
(* (element_size() * nelement()).  Ratios given as floats on the command   *)
(* line are modelled as integer percentages, random.random() as a draw of  *)
(* a percentage in [0, 100).                                               *)
(***************************************************************************)
EXTENDS Integers, Sequences, FiniteSets, TLC

(* ------------------------------ bounds --------------------------------- *)

\* Device ids the model can hold: torch.cuda.device_count() is at most this.
MaxDevices == 2
\* The largest device memory of the fragmentation scenarios, in MiB.
MaxTotalMiB == 3
\* The device refuses an allocation once this many blocks are live.
MaxBlocks == 3
\* The counters of successful allocations and frees are exact below this.
MaxCount == 3
\* Compute-loop iterations followed by the model.
MaxIter == 17
\* Memory of the tiny device, bytes.
TinyBytes == 12

(* ------------------------- program constants --------------------------- *)

MiB == 1024 * 1024
\* element_size() of the default dtype, torch.float32
ItemSize == 4
\* the compute loop synchronises and checks the time every 8th iteration
SyncEvery == 8
\* FragmentConfig.block_size_mib default
DefaultBlockSizeMib == <<512, 256, 128, 64, 32, 16, 8, 4, 2, 1>>
\* seconds in an hour (target_sec = hours * 3600)
SecPerHour == 3600
\* the model's clock advances by 0 or by this many seconds per iteration
TickSec == 3600
\* --hours values followed by the model
Hours == {0, 1}

DeviceIds == 0 .. (MaxDevices - 1)

VARIABLES
    args,          \* parsed command line: device_given, device, hours
    config,        \* FragmentConfig
    device_count,  \* torch.cuda.device_count()
    total_memory,  \* get_device_properties(d).total_memory, bytes
    mainpc,        \* position of the main thread
    device_id,     \* loop variable of run_all_gpus' start loop
    threads,       \* run_all_gpus' dict of started threads (its keys)
    joining,       \* index of the thread the join loop waits for
    pc,            \* per device: position of its single-device sequence
    fragmenter,    \* per device: a MemoryFragmenter has been constructed
    target_mem,    \* per device: fragment's target_mem
    allocated,     \* per device: fragment's running counter
    block_sizes,   \* per device: fragment's candidate list
    block_bytes,   \* per device: the size picked in this iteration
    tensors,       \* per device: MemoryFragmenter._tensors (byte sizes)
    victim,        \* per device: bytes of the popped block still referenced
    iteration,     \* per device: compute loop counter
    elapsed,       \* per device: time.time() - start, seconds
    overrun,       \* per device: full iterations run since an iteration
                   \*   ended with the time up (history of the loop)
    stats,         \* per device: observed picks, attempts, allocations, frees
    rngAccess      \* devices whose sequence drew from the module-level random

vars == <<args, config, device_count, total_memory, mainpc, device_id, threads,
          joining, pc, fragmenter, target_mem, allocated, block_sizes,
          block_bytes, tensors, victim, iteration, elapsed, overrun, stats,
          rngAccess>>

mainVars == <<mainpc, device_id, threads, joining>>
fragVars == <<target_mem, allocated, block_sizes, block_bytes, tensors, victim, stats>>
loopVars == <<iteration, elapsed, overrun>>
inputVars == <<args, config, device_count, total_memory>>

(* ----------------------------- helpers --------------------------------- *)

Max(a, b) == IF a >= b THEN a ELSE b
Min(a, b) == IF a <= b THEN a ELSE b

RECURSIVE SumSeq(_)
SumSeq(s) == IF s = <<>> THEN 0 ELSE Head(s) + SumSeq(Tail(s))

\* _bytes_to_elements(num_bytes, dtype)
BytesToElements(num_bytes) == Max(1, num_bytes \div ItemSize)

\* tensor.element_size() * tensor.nelement() of torch.empty(elements)
TensorBytes(elements) == ItemSize * elements

\* FragmentConfig.block_size_bytes()
BlockSizeBytes(cfg) ==
    [i \in 1 .. Len(cfg.block_size_mib) |-> cfg.block_size_mib[i] * MiB]

\* min_block = int(min_block_mib * 1024 * 1024)
MinBlock(cfg) == cfg.min_block_mib * MiB

\* target_mem = int(total_mem * target_mem_ratio), the ratio in percent
TargetMem(total, cfg) == (total * cfg.target_mem_ratio) \div 100

\* list.remove(x): drops the first occurrence of x
RECURSIVE RemoveFirst(_, _)
RemoveFirst(s, x) ==
    IF s = <<>> THEN <<>>
    ELSE IF Head(s) = x THEN Tail(s)
    ELSE <<Head(s)>> \o RemoveFirst(Tail(s), x)

\* the block is read but left in the list
RemoveAtKeeps(s, idx) == s

\* list.pop(idx), idx 1-based here
RemoveAt(s, idx) == SubSeq(s, 1, idx - 1) \o SubSeq(s, idx + 1, Len(s))

\* the size itself, not its half, is compared with the minimum
KeepSizeUnhalved(size, min_block) == size >= min_block

\* the filter of the comprehension: size // 2 >= min_block
KeepSize(size, min_block) == size \div 2 >= min_block

\* [size // 2 for size in block_sizes if size // 2 >= min_block]
RECURSIVE Halve(_, _)
Halve(s, min_block) ==
    IF s = <<>> THEN <<>>
    ELSE IF KeepSize(Head(s), min_block)
         THEN <<Head(s) \div 2>> \o Halve(Tail(s), min_block)
         ELSE Halve(Tail(s), min_block)

\* the loop runs as long as candidate sizes are left
LoopCondNoTarget(alloc, target, sizes) == sizes # <<>>

\* the loop also runs when allocated equals the target
LoopCondInclusive(alloc, target, sizes) == alloc <= target /\ sizes # <<>>

\* while allocated < target_mem and block_sizes
LoopCond(alloc, target, sizes) == alloc < target /\ sizes # <<>>

\* the range check lets the id one past the last device through
ValidDeviceInclusive(d, count) == 0 <= d /\ d <= count

\* 0 <= args.device < torch.cuda.device_count()
ValidDevice(d, count) == 0 <= d /\ d < count

\* the test is made on the count before its increment
SyncDueBeforeIncrement(it) == (it - 1) % SyncEvery = 0

\* the time is tested on every 16th iteration
SyncDueEvery16(it) == it % (2 * SyncEvery) = 0

\* iteration % 8 == 0
SyncDue(it) == it % SyncEvery = 0

\* bytes the device holds for the sequence of device w during fragmentation
LiveBytes(w) == SumSeq(tensors[w]) + victim[w]

Terminal(w) == pc[w] \in {"done", "failed"}

NoStats == [picked |-> FALSE, attempted |-> FALSE, allocs |-> 0, frees |-> 0]

\* count a successful allocation; both counters freeze once allocs is MaxCount
CountAlloc(st) ==
    IF st.allocs + 1 >= MaxCount
    THEN [st EXCEPT !.allocs = MaxCount, !.frees = 0]
    ELSE [st EXCEPT !.allocs = @ + 1]

CountFree(st) ==
    IF st.allocs >= MaxCount THEN st ELSE [st EXCEPT !.frees = @ + 1]

(* ------------------------------- Init ---------------------------------- *)

InitWith(argSet, cfgSet, counts, totals) ==
    /\ args \in argSet
    /\ config \in cfgSet
    /\ device_count \in counts
    /\ total_memory \in totals
    /\ mainpc = "start"
    /\ device_id = 0
    /\ threads = {}
    /\ joining = 0
    /\ pc = [w \in DeviceIds |-> "idle"]
    /\ fragmenter = [w \in DeviceIds |-> FALSE]
    /\ target_mem = [w \in DeviceIds |-> 0]
    /\ allocated = [w \in DeviceIds |-> 0]
    /\ block_sizes = [w \in DeviceIds |-> <<>>]
    /\ block_bytes = [w \in DeviceIds |-> 0]
    /\ tensors = [w \in DeviceIds |-> <<>>]
    /\ victim = [w \in DeviceIds |-> 0]
    /\ iteration = [w \in DeviceIds |-> 0]
    /\ elapsed = [w \in DeviceIds |-> 0]
    /\ overrun = [w \in DeviceIds |-> 0]
    /\ stats = [w \in DeviceIds |-> NoStats]
    /\ rngAccess = {}

\* The fragmentation scenarios: one device, any configuration.  A minimum
\* block of 0 MiB is followed on a device of TinyBytes bytes only, where the
\* candidate sizes can be halved all the way down.
ArgsSet ==
    {[device_given |-> FALSE, device |-> 0, hours |-> h] : h \in Hours}
    \cup {[device_given |-> TRUE, device |-> d, hours |-> h] :
              d \in (-1) .. MaxDevices, h \in Hours}

FragConfigs ==
    [target_mem_ratio : {0, 50, 150},
     block_size_mib : {DefaultBlockSizeMib, <<2, 1>>},
     min_block_mib : {0, 1, 3},
     random_free_ratio : {0, 15, 100}]

InitFrag ==
    /\ InitWith({a \in ArgsSet : a.device \in {0, 1}},
                FragConfigs, {1}, {0, TinyBytes, MaxTotalMiB * MiB})
    /\ config.min_block_mib = 0 <=>
           (total_memory = TinyBytes /\ config.block_size_mib = <<2, 1>>)

\* The dispatch scenarios: 0 .. MaxDevices devices of 2 MiB and one block
\* size.  A positive duration is followed in single-device runs only.
MainConfigs ==
    [target_mem_ratio : {95},
     block_size_mib : {<<1>>},
     min_block_mib : {1},
     random_free_ratio : {15}]

InitMain ==
    InitWith({a \in ArgsSet : a.hours = 0 \/ a.device_given}, MainConfigs,
             0 .. MaxDevices, {2 * MiB})

(* ------------------------- main, run_all_gpus -------------------------- *)

\* main: the range check fails, ValueError is raised
MainInvalidDevice ==
    /\ mainpc = "start"
    /\ args.device_given
    /\ ~ValidDevice(args.device, device_count)
    /\ mainpc' = "raised"
    /\ UNCHANGED <<inputVars, device_id, threads, joining, pc, fragmenter,
                   fragVars, loopVars, rngAccess>>

\* main: run_on_gpu(args.device, ...) is called in the main thread
MainRunSingle ==
    /\ mainpc = "start"
    /\ args.device_given
    /\ ValidDevice(args.device, device_count)
    /\ mainpc' = "single"
    /\ pc' = [pc EXCEPT ![args.device] = "setup"]
    /\ UNCHANGED <<inputVars, device_id, threads, joining, fragmenter,
                   fragVars, loopVars, rngAccess>>

\* main: run_on_gpu returns, or its exception propagates out of main
MainSingleEnd ==
    /\ mainpc = "single"
    /\ Terminal(args.device)
    /\ mainpc' = IF pc[args.device] = "done" THEN "returned" ELSE "failed"
    /\ UNCHANGED <<inputVars, device_id, threads, joining, pc, fragmenter,
                   fragVars, loopVars, rngAccess>>

\* main: no --device, run_all_gpus is entered with an empty threads dict
EnterRunAll ==
    /\ mainpc = "start"
    /\ ~args.device_given
    /\ mainpc' = "starting"
    /\ device_id' = 0
    /\ threads' = {}
    /\ UNCHANGED <<inputVars, joining, pc, fragmenter, fragVars, loopVars,
                   rngAccess>>

\* the start loop skips device 0
DeviceRangeFromOne(count) == 1 .. (count - 1)

\* range(torch.cuda.device_count())
DeviceRange(count) == 0 .. (count - 1)

\* run_all_gpus: one pass of the start loop
StartThread ==
    /\ mainpc = "starting"
    /\ device_id \in DeviceRange(device_count)
    /\ pc' = [pc EXCEPT ![device_id] = "setup"]
    /\ threads' = threads \cup {device_id}
    /\ device_id' = device_id + 1
    /\ UNCHANGED <<inputVars, mainpc, joining, fragmenter, fragVars,
                   loopVars, rngAccess>>

\* run_all_gpus: the start loop is exhausted, the join loop begins
StartDone ==
    /\ mainpc = "starting"
    /\ device_id \notin DeviceRange(device_count)
    /\ mainpc' = "joining"
    /\ joining' = 0
    /\ UNCHANGED <<inputVars, device_id, threads, pc, fragmenter, fragVars,
                   loopVars, rngAccess>>

\* thread.join() returns once the thread has ended, normally or not
JoinReturns(w) == Terminal(w)

\* run_all_gpus: one pass of the join loop (threads.values() is in
\* insertion order, the order of the device ids)
JoinThread ==
    /\ mainpc = "joining"
    /\ joining \in threads
    /\ JoinReturns(joining)
    /\ joining' = joining + 1
    /\ UNCHANGED <<inputVars, mainpc, device_id, threads, pc, fragmenter,
                   fragVars, loopVars, rngAccess>>

\* run_all_gpus raises after the joins when a worker has failed
JoinDoneReports ==
    /\ mainpc = "joining"
    /\ joining \notin threads
    /\ mainpc' = IF \E w \in threads : pc[w] = "failed"
                 THEN "failed" ELSE "returned"
    /\ UNCHANGED <<inputVars, device_id, threads, joining, pc, fragmenter,
                   fragVars, loopVars, rngAccess>>

\* run_all_gpus: every thread is joined, it returns and so does main
JoinDone ==
    /\ mainpc = "joining"
    /\ joining \notin threads
    /\ mainpc' = "returned"
    /\ UNCHANGED <<inputVars, device_id, threads, joining, pc, fragmenter,
                   fragVars, loopVars, rngAccess>>

(* ------------------ busy_loop_mem_power_fragment ----------------------- *)

\* set_device, get_device_properties, MemoryFragmenter(device, config)
Setup(w) ==
    /\ pc[w] = "setup"
    /\ fragmenter' = [fragmenter EXCEPT ![w] = TRUE]
    /\ tensors' = [tensors EXCEPT ![w] = <<>>]
    /\ pc' = [pc EXCEPT ![w] = "frag_init"]
    /\ UNCHANGED <<inputVars, mainVars, target_mem, allocated, block_sizes,
                   block_bytes, victim, stats, loopVars, rngAccess>>

(* ---------------------- MemoryFragmenter.fragment ---------------------- *)

\* fragment: everything before the loop
FragInit(w) ==
    /\ pc[w] = "frag_init"
    /\ target_mem' = [target_mem EXCEPT ![w] = TargetMem(total_memory, config)]
    /\ allocated' = [allocated EXCEPT ![w] = 0]
    /\ block_sizes' = [block_sizes EXCEPT ![w] = BlockSizeBytes(config)]
    /\ pc' = [pc EXCEPT ![w] = "loop"]
    /\ UNCHANGED <<inputVars, mainVars, fragmenter, block_bytes, tensors,
                   victim, stats, loopVars, rngAccess>>

\* the loop condition is false: fall out of the loop
LoopExit(w) ==
    /\ pc[w] = "loop"
    /\ ~LoopCond(allocated[w], target_mem[w], block_sizes[w])
    /\ pc' = [pc EXCEPT ![w] = "frag_ret"]
    /\ UNCHANGED <<inputVars, mainVars, fragmenter, fragVars, loopVars,
                   rngAccess>>

\* the size in bytes is compared with the minimum in MiB
BelowMinMib(b, cfg) == b < cfg.min_block_mib

\* block_bytes < min_block
BelowMin(b, cfg) == b < MinBlock(cfg)

\* the loop condition is true: random.choice, then the minimum test
LoopPick(w) ==
    /\ pc[w] = "loop"
    /\ LoopCond(allocated[w], target_mem[w], block_sizes[w])
    /\ \E i \in 1 .. Len(block_sizes[w]) :
         LET b == block_sizes[w][i] IN
           IF BelowMin(b, config)
           THEN /\ block_sizes' = [block_sizes EXCEPT ![w] = RemoveFirst(@, b)]
                /\ block_bytes' = [block_bytes EXCEPT ![w] = 0]
                /\ pc' = pc
           ELSE /\ block_sizes' = block_sizes
                /\ block_bytes' = [block_bytes EXCEPT ![w] = b]
                /\ pc' = [pc EXCEPT ![w] = "alloc"]
    /\ stats' = [stats EXCEPT ![w].picked = TRUE]
    /\ rngAccess' = rngAccess \cup {w}
    /\ UNCHANGED <<inputVars, mainVars, fragmenter, target_mem, allocated,
                   tensors, victim, loopVars>>

\* bytes of the tensor torch.empty(_bytes_to_elements(block_bytes)) creates
NewTensorBytes(b) == TensorBytes(BytesToElements(b))

\* the device can hold a further block of the given size
DeviceFits(w, bytes) ==
    /\ LiveBytes(w) + bytes <= total_memory
    /\ Len(tensors[w]) < MaxBlocks

\* torch.empty succeeds: append, allocated += size
AllocOk(w) ==
    /\ pc[w] = "alloc"
    /\ LET bytes == NewTensorBytes(block_bytes[w]) IN
         /\ DeviceFits(w, bytes)
         /\ tensors' = [tensors EXCEPT ![w] = Append(@, bytes)]
         /\ allocated' = [allocated EXCEPT ![w] = @ + bytes]
    /\ stats' = [stats EXCEPT ![w] = CountAlloc([@ EXCEPT !.attempted = TRUE])]
    /\ block_bytes' = [block_bytes EXCEPT ![w] = 0]
    /\ pc' = [pc EXCEPT ![w] = "free"]
    /\ UNCHANGED <<inputVars, mainVars, fragmenter, target_mem, block_sizes,
                   victim, loopVars, rngAccess>>

\* torch.empty raises RuntimeError (out of memory): halve the candidates
AllocFail(w) ==
    /\ pc[w] = "alloc"
    /\ block_sizes' = [block_sizes EXCEPT ![w] = Halve(@, MinBlock(config))]
    /\ stats' = [stats EXCEPT ![w].attempted = TRUE]
    /\ block_bytes' = [block_bytes EXCEPT ![w] = 0]
    /\ pc' = [pc EXCEPT ![w] = "loop"]
    /\ UNCHANGED <<inputVars, mainVars, fragmenter, target_mem, allocated,
                   tensors, victim, loopVars, rngAccess>>

\* values random.random() returns, as percentages
RandomDraws == {0, 50, 99}

\* random.random() < self.config.random_free_ratio
FreeChosen(r, cfg) == r < cfg.random_free_ratio

\* the freed block's size is not subtracted
VictimBytesNone(s, idx) == 0

\* victim.element_size() * victim.nelement() of the block at idx
VictimBytes(s, idx) == s[idx]

\* the random free after a successful allocation
FreeStep(w) ==
    /\ pc[w] = "free"
    /\ IF tensors[w] # <<>>
       THEN /\ rngAccess' = rngAccess \cup {w}
            /\ \E r \in RandomDraws :
                 IF FreeChosen(r, config)
                 THEN \E idx \in 1 .. Len(tensors[w]) :
                        /\ tensors' = [tensors EXCEPT ![w] = RemoveAt(@, idx)]
                        /\ victim' = [victim EXCEPT ![w] = tensors[w][idx]]
                        /\ allocated' = [allocated EXCEPT
                                           ![w] = @ - VictimBytes(tensors[w], idx)]
                        /\ stats' = [stats EXCEPT ![w] = CountFree(@)]
                 ELSE UNCHANGED <<tensors, victim, allocated, stats>>
       ELSE UNCHANGED <<tensors, victim, allocated, stats, rngAccess>>
    /\ pc' = [pc EXCEPT ![w] = "loop"]
    /\ UNCHANGED <<inputVars, mainVars, fragmenter, target_mem, block_sizes,
                   block_bytes, loopVars>>

\* the final print and return list(self._tensors): fragment's locals end
FragReturn(w) ==
    /\ pc[w] = "frag_ret"
    /\ target_mem' = [target_mem EXCEPT ![w] = 0]
    /\ allocated' = [allocated EXCEPT ![w] = 0]
    /\ block_sizes' = [block_sizes EXCEPT ![w] = <<>>]
    /\ block_bytes' = [block_bytes EXCEPT ![w] = 0]
    /\ victim' = [victim EXCEPT ![w] = 0]
    /\ stats' = [stats EXCEPT ![w] = NoStats]
    /\ pc' = [pc EXCEPT ![w] = "matrices"]
    /\ UNCHANGED <<inputVars, mainVars, fragmenter, tensors, loopVars,
                   rngAccess>>

(* --------------------------- the compute loop -------------------------- *)

\* target_sec = hours * 3600
TargetSec(a) == a.hours * SecPerHour

\* the clock is followed up to target_sec: every later reading compares
\* with target_sec as target_sec itself does
ClockCap(a) == Max(TargetSec(a), 0)

\* x, y = torch.rand(...); start = time.time(); iteration = 0
AllocMatrices(w) ==
    /\ pc[w] = "matrices"
    /\ iteration' = [iteration EXCEPT ![w] = 0]
    /\ elapsed' = [elapsed EXCEPT ![w] = 0]
    /\ overrun' = [overrun EXCEPT ![w] = 0]
    /\ pc' = [pc EXCEPT ![w] = "iter"]
    /\ UNCHANGED <<inputVars, mainVars, fragmenter, fragVars, rngAccess>>

\* the pass over the blocks takes the last one off the list
TouchDropsLast(s) == SubSeq(s, 1, Len(s) - 1)

\* _touch_fragmented_tensors: tensor.add_, tensor.mul_ for each block; the
\* contents change, the list and the sizes of its blocks do not
TouchFragmentedTensors(s) == [i \in 1 .. Len(s) |-> s[i]]

\* one pass of the loop body up to iteration += 1; the wall clock moves on
Iterate(w) ==
    /\ pc[w] = "iter"
    /\ iteration[w] < MaxIter
    /\ tensors' = [tensors EXCEPT ![w] = TouchFragmentedTensors(@)]
    /\ iteration' = [iteration EXCEPT ![w] = @ + 1]
    /\ overrun' = [overrun EXCEPT ![w] =
                      IF iteration[w] >= 1 /\ elapsed[w] >= TargetSec(args)
                      THEN @ + 1 ELSE 0]
    /\ \E dt \in {0, TickSec} :
         elapsed' = [elapsed EXCEPT ![w] = Min(@ + dt, ClockCap(args))]
    /\ pc' = [pc EXCEPT ![w] = IF SyncDue(iteration[w] + 1) THEN "check" ELSE "iter"]
    /\ UNCHANGED <<inputVars, mainVars, fragmenter, target_mem, allocated,
                   block_sizes, block_bytes, victim, stats, rngAccess>>

\* elapsed >= target_sec
TimeUp(e, a) == e >= TargetSec(a)

\* synchronize, read the clock, print; the time is not up: loop on
CheckContinue(w) ==
    /\ pc[w] = "check"
    /\ ~TimeUp(elapsed[w], args)
    /\ pc' = [pc EXCEPT ![w] = "iter"]
    /\ UNCHANGED <<inputVars, mainVars, fragmenter, fragVars, loopVars,
                   rngAccess>>

\* the sequence of device w ends: what it held is released
Released(w) ==
    /\ target_mem' = [target_mem EXCEPT ![w] = 0]
    /\ allocated' = [allocated EXCEPT ![w] = 0]
    /\ block_sizes' = [block_sizes EXCEPT ![w] = <<>>]
    /\ block_bytes' = [block_bytes EXCEPT ![w] = 0]
    /\ tensors' = [tensors EXCEPT ![w] = <<>>]
    /\ victim' = [victim EXCEPT ![w] = 0]
    /\ stats' = [stats EXCEPT ![w] = NoStats]
    /\ elapsed' = [elapsed EXCEPT ![w] = 0]

\* synchronize, read the clock, print; the time is up: break and return
CheckBreak(w) ==
    /\ pc[w] = "check"
    /\ TimeUp(elapsed[w], args)
    /\ pc' = [pc EXCEPT ![w] = "done"]
    /\ Released(w)
    /\ UNCHANGED <<inputVars, mainVars, fragmenter, iteration, overrun,
                   rngAccess>>

\* places of the sequence where the accelerator runtime can raise an error
\* that nothing catches: device set-up, the dense matrices, the kernels
FailPoints == {"setup", "frag_init", "matrices", "iter"}

\* a failure in the compute loop is caught and the dense matrices are
\* set up again
FailRetries(w) ==
    /\ pc[w] \in FailPoints
    /\ pc' = [pc EXCEPT ![w] = IF pc[w] = "iter" THEN "matrices" ELSE "failed"]
    /\ UNCHANGED <<inputVars, mainVars, fragmenter, fragVars, loopVars,
                   rngAccess>>

\* the failure of one sequence ends every running sequence
FailStopsAll(w) ==
    /\ pc[w] \in FailPoints
    /\ pc' = [v \in DeviceIds |-> IF pc[v] \in {"idle", "done"} THEN pc[v] ELSE "failed"]
    /\ Released(w)
    /\ iteration' = [iteration EXCEPT ![w] = 0]
    /\ overrun' = [overrun EXCEPT ![w] = 0]
    /\ UNCHANGED <<inputVars, mainVars, fragmenter, rngAccess>>

\* an uncaught exception ends the sequence of device w, and only it
Fail(w) ==
    /\ pc[w] \in FailPoints
    /\ pc' = [pc EXCEPT ![w] = "failed"]
    /\ Released(w)
    /\ iteration' = [iteration EXCEPT ![w] = 0]
    /\ overrun' = [overrun EXCEPT ![w] = 0]
    /\ UNCHANGED <<inputVars, mainVars, fragmenter, rngAccess>>

WorkerStep(w) ==
    \/ Setup(w)
    \/ FragInit(w)
    \/ LoopExit(w)
    \/ LoopPick(w)
    \/ AllocOk(w)
    \/ AllocFail(w)
    \/ FreeStep(w)
    \/ FragReturn(w)
    \/ AllocMatrices(w)
    \/ Iterate(w)
    \/ CheckContinue(w)
    \/ CheckBreak(w)
    \/ Fail(w)

MainStep ==
    \/ MainInvalidDevice
    \/ MainRunSingle
    \/ MainSingleEnd
    \/ EnterRunAll
    \/ StartThread
    \/ StartDone
    \/ JoinThread
    \/ JoinDone

Next == MainStep \/ \E w \in DeviceIds : WorkerStep(w)

\* every thread that can take a step eventually takes one
Fairness == WF_vars(MainStep) /\ \A w \in DeviceIds : WF_vars(WorkerStep(w))

Spec == InitFrag /\ [][Next]_vars
SpecMain == InitMain /\ [][Next]_vars
FairSpec == InitFrag /\ [][Next]_vars /\ Fairness

\* --free-ratio 1 with a positive minimum block
InitAlwaysFree ==
    /\ InitFrag
    /\ config.random_free_ratio = 100
    /\ config.min_block_mib >= 1

FairSpecAlwaysFree == InitAlwaysFree /\ [][Next]_vars /\ Fairness

\* The program calls fragment() once on each MemoryFragmenter.  The class
\* lets a caller call it again: the new call starts its locals afresh and
\* finds self._tensors as the call before left it.
FragmentAgain(w) ==
    /\ pc[w] = "matrices"
    /\ fragmenter[w]
    /\ pc' = [pc EXCEPT ![w] = "frag_init"]
    /\ UNCHANGED <<inputVars, mainVars, fragmenter, fragVars, loopVars,
                   rngAccess>>

NextRefragment == Next \/ \E w \in DeviceIds : FragmentAgain(w)

\* the class under a caller that may call fragment() repeatedly
SpecRefragment == InitFrag /\ [][NextRefragment]_vars

TypeOK ==
    /\ mainpc \in {"start", "raised", "single", "starting", "joining",
                   "returned", "failed"}
    /\ threads \subseteq DeviceIds
    /\ \A w \in DeviceIds :
         /\ pc[w] \in {"idle", "setup", "frag_init", "loop", "alloc", "free",
                       "frag_ret", "matrices", "iter", "check", "done", "failed"}
         /\ allocated[w] \in Int
         /\ iteration[w] \in 0 .. MaxIter
         /\ overrun[w] \in 0 .. MaxIter
         /\ Len(tensors[w]) <= MaxBlocks

(* ------------------------------- claims -------------------------------- *)

InFragment(w) == pc[w] \in {"loop", "alloc", "free", "frag_ret"}

RECURSIVE MaxOfSeq(_)
MaxOfSeq(s) == IF s = <<>> THEN 0 ELSE Max(Head(s), MaxOfSeq(Tail(s)))

\* C1: at every point of the fragmentation loop the counter `allocated`
\* is at most the device's total memory (the device refusing every
\* allocation that would take its live bytes above the total).
C1_AllocatedWithinTotal ==
    \A w \in DeviceIds : InFragment(w) => allocated[w] <= total_memory

\* C1 witness: the counter has reached the whole of a non-empty device and a
\* further allocation, which the device must refuse, is about to be tried.
C1_Witness ==
    \E w \in DeviceIds :
      /\ pc[w] = "alloc"
      /\ total_memory > 0
      /\ allocated[w] = total_memory

\* C2: the fragmentation loop always terminates, whatever the configuration,
\* the random choices and the allocation outcomes, and it exits with
\* allocated >= target or with an empty candidate list.
C2_FragmentLoopTerminates ==
    \A w \in DeviceIds :
      (pc[w] = "loop") ~>
          (/\ pc[w] = "frag_ret"
           /\ (allocated[w] >= target_mem[w] \/ block_sizes[w] = <<>>))

\* the step of device w is a pass through the random free
FreePass(w) == pc[w] = "free" /\ pc'[w] = "loop"

\* the pass freed exactly the block at some index, and subtracted its size
FreedOne(w) ==
    \E idx \in 1 .. Len(tensors[w]) :
      /\ tensors'[w] = [i \in 1 .. (Len(tensors[w]) - 1) |->
                           IF i < idx THEN tensors[w][i] ELSE tensors[w][i + 1]]
      /\ allocated'[w] = allocated[w] - tensors[w][idx]

FreedNone(w) == tensors'[w] = tensors[w] /\ allocated'[w] = allocated[w]

\* C3: a random free removes exactly one block from the live blocks and
\* lowers `allocated` by exactly that block's size (a pass that frees nothing
\* changes neither), and when fragment returns the number of live blocks is
\* the number of successful allocations minus the number of frees.
C3_FreeRemovesOneBlock ==
    [][\A w \in DeviceIds :
         /\ FreePass(w) =>
              /\ FreedOne(w) \/ FreedNone(w)
              /\ stats'[w].frees # stats[w].frees => FreedOne(w)
              /\ (stats'[w].frees = stats[w].frees /\ stats[w].allocs < MaxCount)
                     => FreedNone(w)
         /\ (pc'[w] = "frag_ret" /\ stats'[w].allocs < MaxCount) =>
              Len(tensors'[w]) = stats'[w].allocs - stats'[w].frees]_vars

\* C3 witness: fragment is about to return after two allocations and a free
\* that left one block live.
C3_Witness ==
    \E w \in DeviceIds :
      /\ pc[w] = "frag_ret"
      /\ stats[w].allocs = 2
      /\ stats[w].frees = 1
      /\ Len(tensors[w]) = 1

MinAboveAll == MinBlock(config) > MaxOfSeq(BlockSizeBytes(config))

\* C4: with min_block_mib above the largest configured block size the loop
\* never attempts an allocation, whatever the order of the picks, it
\* terminates, and fragment returns no live block with allocated = 0.
C4_MinAboveAllSizes ==
    /\ [](\A w \in DeviceIds :
            (MinAboveAll /\ InFragment(w)) =>
                /\ pc[w] \in {"loop", "frag_ret"}
                /\ ~stats[w].attempted
                /\ tensors[w] = <<>>
                /\ allocated[w] = 0)
    /\ \A w \in DeviceIds :
         (MinAboveAll /\ pc[w] = "loop") ~> (pc[w] = "frag_ret")

\* C4 witness: the loop has picked and dropped every candidate and fragment
\* is about to return.
C4_Witness ==
    \E w \in DeviceIds :
      /\ MinAboveAll
      /\ pc[w] = "frag_ret"
      /\ stats[w].picked
      /\ block_sizes[w] = <<>>
      /\ target_mem[w] > 0

\* C5: with target_mem_ratio = 0 the loop condition is false on entry: no
\* size is picked, no allocation is attempted and fragment returns an empty
\* block list.
C5_ZeroRatioNoAllocation ==
    \A w \in DeviceIds :
      (config.target_mem_ratio = 0 /\ InFragment(w)) =>
          /\ pc[w] \in {"loop", "frag_ret"}
          /\ ~stats[w].picked
          /\ ~stats[w].attempted
          /\ tensors[w] = <<>>

\* C5 witness: fragment is about to return on a device with memory, with
\* candidate sizes left, under a zero ratio.
C5_Witness ==
    \E w \in DeviceIds :
      /\ config.target_mem_ratio = 0
      /\ pc[w] = "frag_ret"
      /\ total_memory > 0
      /\ block_sizes[w] # <<>>

\* C6: the elapsed-time test of the compute loop is made only when the
\* iteration counter is a positive multiple of 8, so the loop exits with such
\* a count: at least 8 full iterations complete, for every hours value.
C6_CheckEveryEighth ==
    \A w \in DeviceIds :
      pc[w] \in {"check", "done"} =>
          /\ iteration[w] >= 8
          /\ iteration[w] % 8 = 0

\* C6 witness: with hours = 0 the loop has stopped after exactly 8 iterations.
C6_Witness ==
    \E w \in DeviceIds :
      /\ args.hours = 0
      /\ pc[w] = "done"
      /\ iteration[w] = 8

\* C7: with a valid --device d exactly the sequence of device d runs, in the
\* main thread, and no worker is started; without --device, on N devices,
\* the workers started are those of devices 0 .. N-1, one each, and
\* run_all_gpus returns only after every one of them has finished.
C7_OneWorkerPerDevice ==
    /\ args.device_given =>
         /\ threads = {}
         /\ \A w \in DeviceIds : w # args.device => pc[w] = "idle"
         /\ mainpc = "returned" => pc[args.device] = "done"
    /\ ~args.device_given =>
         /\ threads \subseteq 0 .. (device_count - 1)
         /\ \A w \in DeviceIds : w \notin threads => pc[w] = "idle"
         /\ mainpc \in {"joining", "returned"} =>
              threads = 0 .. (device_count - 1)
         /\ mainpc = "returned" =>
              \A w \in threads : pc[w] \in {"done", "failed"}

\* C7 witness: run_all_gpus has returned on a system of two devices.
C7_Witness ==
    /\ ~args.device_given
    /\ device_count = 2
    /\ mainpc = "returned"
    /\ threads = {0, 1}

\* everything the sequence of device v reads or writes
WState(v) ==
    <<pc[v], fragmenter[v], target_mem[v], allocated[v], block_sizes[v],
      block_bytes[v], tensors[v], victim[v], iteration[v], elapsed[v], overrun[v],
      stats[v]>>

\* C8: under run_all_gpus the failure of one device's worker changes nothing
\* of any other worker, which goes on from where it was, nor of the main
\* thread, and run_all_gpus returns only once every worker has ended.
C8_FailureIsIsolated ==
    [][/\ \A w \in DeviceIds :
            (pc[w] # "failed" /\ pc'[w] = "failed") =>
                /\ \A v \in DeviceIds \ {w} : WState(v)' = WState(v)
                /\ mainpc' = mainpc
                /\ threads' = threads
                /\ joining' = joining
       /\ (~args.device_given /\ mainpc' = "returned") =>
            \A v \in threads' : pc'[v] \in {"done", "failed"}]_vars

\* C8 witness: run_all_gpus has returned with one worker failed and another
\* one complete.
C8_Witness ==
    /\ ~args.device_given
    /\ mainpc = "returned"
    /\ \E w, v \in threads : pc[w] = "failed" /\ pc[v] = "done"

\* C9: workers started by run_all_gpus share no mutable state: the
\* pseudo-random source a worker draws from is used by no other worker.
C9_NoSharedRandomSource == Cardinality(rngAccess) <= 1

\* C10: with a --device value outside 0 <= device < device_count main raises
\* before any work: no fragmenter is created, no allocation is attempted, no
\* compute iteration runs and no worker thread is started.
C10_InvalidDeviceNoWork ==
    (args.device_given /\ ~(0 <= args.device /\ args.device < device_count)) =>
        /\ mainpc \in {"start", "raised"}
        /\ threads = {}
        /\ rngAccess = {}
        /\ \A w \in DeviceIds :
             /\ pc[w] = "idle"
             /\ ~fragmenter[w]
             /\ ~stats[w].attempted
             /\ tensors[w] = <<>>
             /\ iteration[w] = 0

\* C10 witness: main has raised for the id one past the last device.
C10_Witness ==
    /\ args.device_given
    /\ args.device = device_count
    /\ device_count > 0
    /\ mainpc = "raised"

(* ------------------------------- C11 ----------------------------------- *)

HalvedSizes(s) == [i \in 1 .. Len(s) |-> s[i] \div 2]

AtLeastMinBlock(size) == size >= MinBlock(config)

\* C11: a failed allocation attempt replaces the candidate list by the list
\* of every candidate halved (integer division) from which the halves below
\* min_block are dropped, order kept; it leaves allocated and the live
\* blocks as they were, and the loop goes on: the sequence is back at the
\* loop test, it has not failed.  (An attempt ends at "free" when it
\* succeeded, and anywhere else when it failed.)
C11_FailureHalvesCandidates ==
    [][\A w \in DeviceIds :
         (pc[w] = "alloc" /\ pc'[w] \notin {"alloc", "free"})
             => /\ block_sizes'[w] =
                       SelectSeq(HalvedSizes(block_sizes[w]), AtLeastMinBlock)
                /\ allocated'[w] = allocated[w]
                /\ tensors'[w] = tensors[w]
                /\ pc'[w] = "loop"]_vars

\* a failed attempt has halved <<2, 1>> MiB to <<1>> MiB with a block live
C11_Witness ==
    \E w \in DeviceIds :
        /\ pc[w] = "loop"
        /\ config.block_size_mib = <<2, 1>>
        /\ config.min_block_mib = 1
        /\ block_sizes[w] = <<MiB>>
        /\ tensors[w] # <<>>
        /\ allocated[w] < target_mem[w]

(* ------------------------------- C12 ----------------------------------- *)

\* C12: when every allocation attempt of a fragment call fails, the loop
\* ends after finitely many attempts with the candidate list exhausted and
\* fragment returns normally, whatever min_block_mib the command line
\* gave: from every loop test the call gets to its return, with an empty
\* candidate list if an attempt was made, unless an allocation succeeds.
C12_AllFailuresTerminate ==
    \A w \in DeviceIds :
        (pc[w] = "loop")
            ~> \/ stats[w].allocs > 0
               \/ /\ pc[w] = "frag_ret"
                  /\ stats[w].attempted => block_sizes[w] = <<>>

(* ------------------------------- C13 ----------------------------------- *)

\* C13: the fragmentation loop stops once the live allocations sum to the
\* target or more.  At a loop test with allocated >= target_mem the thread
\* picks no size and attempts no allocation: its step leaves the loop, and
\* the candidates, the blocks and the counts of picks and attempts stay as
\* they are; an attempt is only ever under way with allocated < target_mem;
\* and allocated never exceeds the device's total memory.
C13_StopsAtTarget ==
    /\ [](\A w \in DeviceIds :
            /\ pc[w] = "alloc" => allocated[w] < target_mem[w]
            /\ InFragment(w) => allocated[w] <= total_memory)
    /\ [][\A w \in DeviceIds :
            (pc[w] = "loop" /\ allocated[w] >= target_mem[w])
                => /\ pc'[w] \in {"loop", "frag_ret"}
                   /\ block_sizes'[w] = block_sizes[w]
                   /\ tensors'[w] = tensors[w]
                   /\ allocated'[w] = allocated[w]
                   /\ stats'[w] = stats[w]]_vars

\* the loop has ended on the target with candidate sizes left: one block of
\* 2 MiB reaches the target of half a 3 MiB device
C13_Witness ==
    \E w \in DeviceIds :
        /\ pc[w] = "frag_ret"
        /\ config.target_mem_ratio = 50
        /\ target_mem[w] > 0
        /\ allocated[w] >= target_mem[w]
        /\ tensors[w] = <<2 * MiB>>
        /\ block_sizes[w] # <<>>

(* ------------------------------- C14 ----------------------------------- *)

\* C14: once an iteration of the compute loop has ended with the elapsed
\* time at hours * 3600 or more, the loop runs at most 7 further full
\* iterations before it stops, and it stops at the next multiple of 8: the
\* count of such further iterations never passes 7, a time test made with
\* the time up ends the loop, and while the loop runs on with the time up
\* the iteration counter is not a multiple of 8.
C14_AtMostSevenMore ==
    /\ [](\A w \in DeviceIds :
            /\ overrun[w] <= 7
            /\ (pc[w] = "iter" /\ iteration[w] >= 1
                    /\ elapsed[w] >= TargetSec(args))
                   => /\ iteration[w] % 8 # 0
                      /\ overrun[w] < iteration[w] % 8)
    /\ [][\A w \in DeviceIds :
            (pc[w] = "check" /\ elapsed[w] >= TargetSec(args))
                => /\ pc'[w] \in {"check", "done"}
                   /\ iteration'[w] = iteration[w]]_vars

\* the time was up at the end of the 9th iteration, just after a time test:
\* 7 further iterations ran and the loop stopped at 16
C14_Witness ==
    \E w \in DeviceIds :
        /\ pc[w] = "done"
        /\ args.hours = 1
        /\ iteration[w] = 16
        /\ overrun[w] = 7

(* ------------------------------- C15 ----------------------------------- *)

\* C15: a failure to allocate a dense matrix after the fragmentation, or a
\* failure inside the compute loop, goes to the caller and nothing is tried
\* again.  The set-up of the matrices is followed by the first iteration or
\* by the end of the sequence in failure; an iteration is followed by the
\* next one, by the time test, or by the end in failure; a sequence that
\* has failed stays failed and counts no further iteration; and a
\* single-device run whose sequence failed ends in failure itself, it never
\* returns normally.
C15_FailurePropagates ==
    /\ [][\A w \in DeviceIds :
            /\ pc[w] = "matrices"
                   => /\ pc'[w] \in {"matrices", "iter", "failed"}
                      /\ pc'[w] = "iter" => iteration'[w] = 0
            /\ (pc[w] = "iter" /\ pc'[w] # "failed")
                   => \/ pc'[w] = "iter" /\ iteration'[w] = iteration[w]
                      \/ /\ pc'[w] \in {"iter", "check"}
                         /\ iteration'[w] = iteration[w] + 1
            /\ pc[w] = "failed"
                   => pc'[w] = "failed" /\ iteration'[w] = iteration[w]]_vars
    /\ [](args.device_given
            => /\ mainpc = "returned" => pc[args.device] = "done"
               /\ mainpc = "failed" => pc[args.device] = "failed")

\* a single-device run has failed after its fragmentation picked sizes, that
\* is at the dense matrices or in the compute loop, and main ended in failure
C15_Witness ==
    /\ args.device_given
    /\ mainpc = "failed"
    /\ pc[args.device] = "failed"
    /\ args.device \in rngAccess

(* ------------------------------- C16 ----------------------------------- *)

InComputeLoop(w) == pc[w] \in {"iter", "check"}

\* C16: the live blocks are changed during the fragmentation only.  Once
\* fragment has returned, the set-up of the matrices, every iteration of
\* the compute loop and every time test leave the list of live blocks as it
\* was: the same blocks, as many, in the same order.  The list changes in
\* an allocation attempt or a random free of the fragmentation, and when
\* the sequence ends and the device's memory is given back.
C16_ComputeKeepsBlocks ==
    [][\A w \in DeviceIds :
         /\ ((pc[w] = "matrices" \/ InComputeLoop(w)) /\ InComputeLoop(w)')
                => tensors'[w] = tensors[w]
         /\ tensors'[w] # tensors[w]
                => \/ pc[w] \in {"alloc", "free"}
                   \/ Terminal(w)' /\ tensors'[w] = <<>>]_vars

\* the loop is at its second time test with two blocks of different sizes
C16_Witness ==
    \E w \in DeviceIds :
        /\ pc[w] = "check"
        /\ iteration[w] = 16
        /\ Len(tensors[w]) = 2
        /\ tensors[w][1] # tensors[w][2]

(* ------------------------------- C17 ----------------------------------- *)

\* C17: at every loop test of fragment() and when it returns, allocated is
\* the sum of the byte sizes of the blocks held in self._tensors, for every
\* sequence of fragment() calls on a MemoryFragmenter.
C17_AllocatedIsLiveSum ==
    \A w \in DeviceIds :
        pc[w] \in {"loop", "frag_ret"} => allocated[w] = SumSeq(tensors[w])

(* ------------------------------- C18 ----------------------------------- *)

\* C18: fragment overshoots its target by less than one block.  At every
\* point of the loop and at the return, allocated is below target_mem plus
\* the largest size of the candidate list the call started with, whatever
\* the picks, the frees and the allocation failures were.
C18_OvershootBelowOneBlock ==
    \A w \in DeviceIds :
        InFragment(w)
            => allocated[w] < target_mem[w] + MaxOfSeq(BlockSizeBytes(config))

\* a block of 1 MiB, then one of 2 MiB: the call returns with 3 MiB held for
\* a target of 1.5 MiB
C18_Witness ==
    \E w \in DeviceIds :
        /\ pc[w] = "frag_ret"
        /\ tensors[w] = <<MiB, 2 * MiB>>
        /\ allocated[w] = 3 * MiB
        /\ 2 * target_mem[w] = 3 * MiB
        /\ MaxOfSeq(BlockSizeBytes(config)) = 2 * MiB

(* ------------------------------- C19 ----------------------------------- *)

\* C19: run_all_gpus never reports a worker's failure to its caller.  A run
\* without --device never ends in an error of the main thread, whatever its
\* workers did; the join loop is left only by the normal return; and at the
\* return every worker has ended, failed or complete alike.
C19_WorkerFailureNotReported ==
    /\ [](~args.device_given
            => /\ mainpc \notin {"failed", "raised"}
               /\ mainpc = "returned" => \A w \in threads : Terminal(w))
    /\ [][(~args.device_given /\ mainpc = "joining" /\ mainpc' # mainpc)
            => /\ mainpc' = "returned"
               /\ joining \notin threads
               /\ pc' = pc]_vars

\* run_all_gpus has returned normally on two devices whose workers both
\* failed
C19_Witness ==
    /\ ~args.device_given
    /\ mainpc = "returned"
    /\ threads = {0, 1}
    /\ \A w \in threads : pc[w] = "failed"

====
